---------------------------- MODULE Spec2Model ----------------------------
(***************************************************************************)
(* Model of the I-TYPE classification engine (src/idix_engine.py):        *)
(*   normalize_scores, _compute_archetype_energy, determine_archetype,     *)
(*   monte_carlo_probabilities and compute_archetype_distances.            *)
(*                                                                         *)
(* Number representation.  The engine computes in floating point; the      *)
(* model computes the same expressions exactly:                            *)
(*   - a normalised score is a rational [num, den];                        *)
(*   - a returned percentage is [num, den, dev]: the fraction num / den    *)
(*     that (c / total) * 100.0 rounds, and the side dev of that fraction  *)
(*     the float lies on (-1 below, 0 equal, 1 above);                     *)
(*   - an energy is [inf, v, ulp], v being the value of the energy       *)
(*     expression times EScale, which is an integer whenever every         *)
(*     |score - signature| is a perfect square (then |diff| ** 1.5 is      *)
(*     rational), and ulp the rounding step by which the computed float    *)
(*     lies above another computed float of the same value v;              *)
(*   - a Euclidean distance is [inf, sq], the distance being sqrt(sq).     *)
(***************************************************************************)
EXTENDS Integers, Sequences, FiniteSets

VARIABLES
    \* ---- engine inputs (arguments of the three public functions)
    scores,        \* the base score vector: dimension -> 0..100
    archetypes,    \* the catalog, in dict order: <<[name, signature], ...>>
    dim_weights,   \* dimension -> weight; empty when dim_weights is None
    rounding,      \* entry index -> rounding step of its float energy for
                   \* the base score vector, fixed for the whole process
    \* ---- determine_archetype
    best_name,     \* name returned by the last call, None when no entry won
    best_data,     \* signature of the returned entry, empty for None
    match_energy,  \* name -> E computed at line 159 during the last call
    prev_name,     \* name returned by the call before the last one
    match_calls,   \* number of determine_archetype calls made
    \* ---- monte_carlo_probabilities
    mc_pc,         \* "idle" | "loop" | "returned" | "raised"
    runs,          \* the runs argument
    noise,         \* the noise argument, in hundredths
    trial,         \* trials completed
    perturbed,     \* the perturbed vector of the current trial
    counts,        \* name -> votes
    probs,         \* name -> percentage
    stability,     \* returned stability
    shadow,        \* returned shadow pair <<name, percentage>>
    \* ---- compute_archetype_distances
    dist_pc,       \* "idle" | "returned"
    dist,          \* [euclidean, energy], each name -> value
    \* ---- normalize_scores
    raw_answers,   \* normalizer input: the answers, in dict order
    final_scores,  \* normalize_scores(raw_answers), once called
    flip_scores,   \* normalize_scores of the answers with one reverse-coded
                   \* answer rewritten as {6 - v, reverse: false}
    norm_pc,       \* "input" | "normalized" | "compared"
    asked          \* questions get_answers_from_state has gone through

normVars == <<raw_answers, final_scores, flip_scores, norm_pc, asked>>

inputVars == <<scores, archetypes, dim_weights, rounding>>

matchVars == <<best_name, best_data, match_energy, prev_name, match_calls>>

mcVars == <<mc_pc, runs, noise, trial, perturbed, counts, probs, stability, shadow>>

distVars == <<dist_pc, dist>>

engineVars == <<inputVars, matchVars, mcVars, distVars>>

vars == <<engineVars, normVars>>

-----------------------------------------------------------------------------
(* Bounds of the model *)

MaxAnswers == 2

MaxArch == 2

MaxRuns == 3

MaxCalls == 2

-----------------------------------------------------------------------------
(* 1. normalize_scores *)

dims == <<"thinking", "execution", "risk", "motivation", "team", "commercial">>

DimSet == {dims[i] : i \in 1..Len(dims)}

Likert == 1..5

Entries == [dimension : DimSet, value : Likert, reverse : BOOLEAN]

Rat(n, d) == [num |-> n, den |-> d]

RatEq(a, b) == a.num * b.den = b.num * a.den

RatLe(a, b) == a.num * b.den <= b.num * a.den

RatLt(a, b) == a.num * b.den < b.num * a.den

\* A plausible slip: the reverse flag is read but the value is not inverted.
ReverseCodedIgnored(entry) == entry.value

\* lines 44-48: val = entry["value"]; if reverse: val = 6 - val
ReverseCoded(entry) ==
    IF entry.reverse THEN 6 - entry.value ELSE entry.value

\* lines 42-51: the accumulation loop; acc = [scores, counts]
RECURSIVE Accumulate(_, _, _)
Accumulate(raw, i, acc) ==
    IF i > Len(raw) THEN acc
    ELSE LET dim == raw[i].dimension
             val == ReverseCoded(raw[i])
         IN  Accumulate(raw, i + 1,
                 [scores |-> [acc.scores EXCEPT ![dim] = @ + val],
                  counts |-> [acc.counts EXCEPT ![dim] = @ + 1]])

\* lines 39-51: scores and counts per dimension after the loop
Tallies(raw) ==
    Accumulate(raw, 1, [scores |-> [d \in DimSet |-> 0],
                        counts |-> [d \in DimSet |-> 0]])

\* A plausible slip: the maximum taken as 4 per answer (the width of the
\* scale) instead of 5.
FinalScoreMaxFour(sum, count) ==
    IF count * 4 <= 0 THEN Rat(50, 1) ELSE Rat(sum * 100, count * 4)

\* A plausible slip: no neutral fallback, an unanswered dimension scoring 0.
FinalScoreNoFallback(sum, count) ==
    IF count * 5 <= 0 THEN Rat(0, 1) ELSE Rat(sum * 100, count * 5)

\* lines 55-61: max_score = counts[d] * 5.0; 50.0 or scores[d] / max_score * 100
FinalScore(sum, count) ==
    IF count * 5 <= 0 THEN Rat(50, 1) ELSE Rat(sum * 100, count * 5)

\* lines 27-63
normalize_scores(raw) ==
    LET acc == Tallies(raw)
    IN  [d \in DimSet |-> FinalScore(acc.scores[d], acc.counts[d])]

Unset == [d \in {} |-> Rat(0, 1)]

\* The answers with answer i rewritten as the non-reversed answer 6 - v.
Unreversed(raw, i) ==
    [raw EXCEPT ![i] = [dimension |-> raw[i].dimension,
                        value |-> 6 - raw[i].value,
                        reverse |-> FALSE]]

NormStart ==
    /\ asked = 0
    /\ raw_answers = <<>>
    /\ final_scores = Unset
    /\ flip_scores = Unset
    /\ norm_pc = "input"

\* I-Type.py get_answers_from_state, lines 113-126: one iteration of the
\* loop.  Line 122 stores the entry under the question's text: a text not
\* seen before adds an entry at the end of the dict, the text of the
\* question that made entry i replaces entry i where it stands.
AddAnswer ==
    /\ norm_pc = "input"
    /\ asked < MaxAnswers
    /\ \E e \in Entries :
          \/ raw_answers' = Append(raw_answers, e)
          \/ \E i \in 1..Len(raw_answers) :
                raw_answers' = [raw_answers EXCEPT ![i] = e]
    /\ asked' = asked + 1
    /\ UNCHANGED <<final_scores, flip_scores, norm_pc>>
    /\ UNCHANGED engineVars

\* I-Type.py line 250: final_scores = normalize_scores(answers)
Normalize ==
    /\ norm_pc = "input"
    /\ final_scores' = normalize_scores(raw_answers)
    /\ norm_pc' = "normalized"
    /\ UNCHANGED <<raw_answers, flip_scores, asked>>
    /\ UNCHANGED engineVars

\* normalize_scores called on the same answers with one reverse-coded
\* answer replaced by its non-reversed equivalent
NormalizeUnreversed ==
    /\ norm_pc = "normalized"
    /\ \E i \in 1..Len(raw_answers) :
          /\ raw_answers[i].reverse
          /\ flip_scores' = normalize_scores(Unreversed(raw_answers, i))
    /\ norm_pc' = "compared"
    /\ UNCHANGED <<raw_answers, final_scores, asked>>
    /\ UNCHANGED engineVars

-----------------------------------------------------------------------------
(* 2. Energy landscape engine *)

\* The dimensions and score values the engine inputs range over.  Every
\* difference of two Grid values is a perfect square, so abs(diff) ** 1.5
\* is computed exactly.
MDims == {"thinking", "execution"}

Grid == {0, 36, 100}

WVals == {2}

ArchNames == <<"Visionary", "Operator", "Builder", "Maverick">>

\* Python None, as a returned name
None == "<None>"

NoData == [d \in {} |-> 0]

\* lambda_curvature = 0.6, in tenths (line 163)
LambdaTenths == 6

\* rarity_weight = 0.25, in hundredths (line 164)
RarityHundredths == 25

\* Energies are held as integers: energy * EScale.
EScale == 60 * 100 * 100

Finite(x) == [inf |-> FALSE, v |-> x, ulp |-> 0]

Inf == [inf |-> TRUE, v |-> 0, ulp |-> 0]

\* The float an expression of value E.v / EScale was rounded to
Rounded(E, u) == IF E.inf THEN E ELSE [E EXCEPT !.ulp = u]

\* a < b on floats that may be float("inf").  Two floats of different
\* values v are ordered as their values are (the values differ by at least
\* 1 / EScale, the rounding by about 1e-16).
Less(a, b) ==
    /\ ~a.inf
    /\ \/ b.inf
       \/ a.v < b.v
       \/ a.v = b.v /\ a.ulp < b.ulp

Abs(x) == IF x < 0 THEN -x ELSE x

\* sqrt of a perfect square
Root(x) == CHOOSE k \in 0..x : k * k = x

RECURSIVE SumFn(_)
SumFn(f) ==
    IF DOMAIN f = {} THEN 0
    ELSE LET d == CHOOSE x \in DOMAIN f : TRUE
         IN  f[d] + SumFn([x \in DOMAIN f \ {d} |-> f[x]])

\* line 116: w = float(dim_weights.get(d, 1.0))
Weight(weights, d) == IF d \in DOMAIN weights THEN weights[d] ELSE 1

\* A plausible slip: the rarity term left out of the energy.
EnergyNoRarity(sc, signature, weights, lambda10, rarity100) ==
    LET common_dims == DOMAIN sc \cap DOMAIN signature
        diff == [d \in common_dims |-> Abs(sc[d] - signature[d])]
        quad == SumFn([d \in common_dims |->
                          Weight(weights, d) * diff[d] * diff[d]])
        curv == SumFn([d \in common_dims |->
                          Weight(weights, d) * Root(diff[d]) * diff[d]])
    IN  IF common_dims = {} THEN Inf
        ELSE Finite(60 * quad + 60 * lambda10 * curv)

\* A plausible slip: the no-overlap guard of lines 110-113 left out, so an
\* empty common_dims gives 0 + rarity_weight * 0.5 (the rarity default of
\* line 134).
EnergyNoOverlapGuard(sc, signature, weights, lambda10, rarity100) ==
    LET common_dims == DOMAIN sc \cap DOMAIN signature
        n == Cardinality(common_dims)
        diff == [d \in common_dims |-> Abs(sc[d] - signature[d])]
        quad == SumFn([d \in common_dims |->
                          Weight(weights, d) * diff[d] * diff[d]])
        curv == SumFn([d \in common_dims |->
                          Weight(weights, d) * Root(diff[d]) * diff[d]])
        sig_sum == SumFn([d \in common_dims |-> signature[d]])
    IN  IF common_dims = {} THEN Finite(60 * rarity100 * 50)
        ELSE Finite(60 * quad + 60 * lambda10 * curv
                    + (60 * rarity100 * sig_sum) \div n)

\* lines 70-138.  With diff = |scores[d] - signature[d]| in score units:
\*   quad_term = SUM w * (diff/100)^2       = quad / 10^4
\*   curv_term = SUM w * (diff/100)^1.5     = curv / 10^3
\*   rarity    = sum(sig_vals) / (n * 100)
\*   energy    = quad_term + lambda * curv_term + rarity_weight * rarity
\* and the value held is energy * EScale.
compute_archetype_energy(sc, signature, weights, lambda10, rarity100) ==
    LET common_dims == DOMAIN sc \cap DOMAIN signature
        n == Cardinality(common_dims)
        diff == [d \in common_dims |-> Abs(sc[d] - signature[d])]
        quad == SumFn([d \in common_dims |->
                          Weight(weights, d) * diff[d] * diff[d]])
        curv == SumFn([d \in common_dims |->
                          Weight(weights, d) * Root(diff[d]) * diff[d]])
        sig_sum == SumFn([d \in common_dims |-> signature[d]])
    IN  IF common_dims = {} THEN Inf
        ELSE Finite(60 * quad + 60 * lambda10 * curv
                    + (60 * rarity100 * sig_sum) \div n)

\* A plausible slip: "<=" for "<", so the last of several equal minima wins.
BetterOrEqual(E, best_energy) == ~E.inf /\ ~Less(best_energy, E)

\* line 167: if E < best_energy
Better(E, best_energy) == Less(E, best_energy)

IsSquare(x) == \E k \in 0..10 : k * k = x

\* Every |score - signature| the energy of a catalog entry reads is a
\* perfect square
Representable(sc, archs) ==
    \A i \in 1..Len(archs) :
        \A d \in DOMAIN sc \cap DOMAIN archs[i].signature :
            IsSquare(Abs(sc[d] - archs[i].signature[d]))

\* lines 115-136 in floating point.  The two signatures make the loop and
\* line 136 compute on the same float operands: the same (w, |diff|) terms
\* with diff /= 0, at most two of them (a float sum of two terms does not
\* depend on the order the set common_dims is iterated in, a sum of three
\* does; a term with diff = 0 adds 0.0), and the same quotient
\* sum(sig_vals) / (len(sig_vals) * 100.0).
SameFloatOperands(sc, sig1, sig2, weights) ==
    LET c1 == DOMAIN sc \cap DOMAIN sig1
        c2 == DOMAIN sc \cap DOMAIN sig2
        t1 == {d \in c1 : sc[d] /= sig1[d]}
        t2 == {d \in c2 : sc[d] /= sig2[d]}
    IN  /\ Cardinality(t1) <= 2
        /\ Cardinality(t1) = Cardinality(t2)
        /\ \E f \in [t1 -> t2] :
              /\ \A x, y \in t1 : x /= y => f[x] /= f[y]
              /\ \A d \in t1 :
                    /\ Weight(weights, d) = Weight(weights, f[d])
                    /\ Abs(sc[d] - sig1[d]) = Abs(sc[f[d]] - sig2[f[d]])
        /\ SumFn([d \in c1 |-> sig1[d]]) * Cardinality(c2)
              = SumFn([d \in c2 |-> sig2[d]]) * Cardinality(c1)

\* Two signatures whose energies for the score vector (36, 36) have the same
\* value, 0.0914, from different operands: differences (4, 0) with mean
\* signature 34, and (1, 1) with mean signature 36
TieSignatures ==
    {[d \in MDims |-> IF d = "thinking" THEN 32 ELSE 36],
     [d \in MDims |-> IF d = "thinking" THEN 35 ELSE 37]}

\* The score vectors and signatures whose float energies are written out
\* below: scores (36, 36), no weights, a signature of TieSignatures
FloatStepKnown(sc, signature, weights) ==
    /\ weights = NoData
    /\ sc = [d \in MDims |-> 36]
    /\ signature \in TieSignatures

\* lines 115-136 in IEEE 754 double arithmetic on those operands.
\* Signature (32, 36): quad_term 0.0016, curv_term 0.008,
\* base 0.0063999999999999994, rarity 0.34, and
\* base + 0.25 * 0.34 = 0.09140000000000001, one step above 0.0914.
\* Signature (35, 37): quad_term 0.0002, curv_term 0.002, base 0.0014,
\* rarity 0.36, and base + 0.25 * 0.36 = 0.0914.
FloatStep(sc, signature, weights) ==
    IF signature["thinking"] = 32 THEN 1 ELSE 0

\* lines 115-136 in floating point: the rounding steps the energies of the
\* catalog entries can carry, given the pairs of tied entries and those of
\* them computed from the same operands.  The energies of two entries whose
\* expressions have the same value, computed from different operands, are
\* two floats that may be equal or one rounding step apart, either way
\* round; computed from the same operands they are the same float.
RoundingsOf(sc, archs, weights, tied, same) ==
    IF tied = same
    THEN {[i \in 1..Len(archs) |-> 0]}
    ELSE {r \in [1..Len(archs) -> {0, 1}] :
             /\ \A i \in 1..Len(archs) :
                   r[i] = 1 =>
                       \E t \in tied \ same : t[1] = i /\ r[t[2]] = 0
             /\ \A t \in same : r[t[1]] = r[t[2]]
             /\ \A t \in tied \ same :
                   FloatStepKnown(sc, archs[t[1]].signature, weights) =>
                       r[t[1]] = FloatStep(sc, archs[t[1]].signature,
                                           weights)}

\* line 167 on two entries: the pairs of valid entries whose energies, as
\* the formula of lines 115-136 gives them, are finite and equal
Tied(archs, energy) ==
    {t \in (1..Len(archs)) \X (1..Len(archs)) :
        /\ t[1] /= t[2]
        /\ archs[t[1]].signature /= NoData
        /\ archs[t[2]].signature /= NoData
        /\ ~energy[t[1]].inf
        /\ energy[t[1]] = energy[t[2]]}

\* lines 115-136 over a catalog: the energies are computed once, then
\* compared
Roundings(sc, archs, weights) ==
    UNION {UNION {RoundingsOf(sc, archs, weights, tied,
                      {t \in tied :
                          SameFloatOperands(sc, archs[t[1]].signature,
                                            archs[t[2]].signature, weights)}) :
                     tied \in {Tied(archs, energy)}} :
              energy \in {[i \in 1..Len(archs) |->
                              compute_archetype_energy(sc, archs[i].signature,
                                  weights, LambdaTenths, RarityHundredths)]}}

\* lines 154-170: the loop body for catalog entries i..Len(archs);
\* best = [name, energy, data, seen], seen being the E of every entry
\* reached; rnd[i] is the rounding step of the float E of entry i
RECURSIVE MatchLoop(_, _, _, _, _, _)
MatchLoop(sc, archs, weights, rnd, i, best) ==
    IF i > Len(archs) THEN best
    ELSE LET name == archs[i].name
             signature == archs[i].signature
             E == Rounded(compute_archetype_energy(sc, signature, weights,
                              LambdaTenths, RarityHundredths), rnd[i])
             seen == [x \in DOMAIN best.seen \cup {name} |->
                         IF x = name THEN E ELSE best.seen[x]]
         IN  IF signature = NoData
             THEN MatchLoop(sc, archs, weights, rnd, i + 1, best)
             ELSE IF Better(E, best.energy)
             THEN MatchLoop(sc, archs, weights, rnd, i + 1,
                      [name |-> name, energy |-> E, data |-> signature,
                       seen |-> seen])
             ELSE MatchLoop(sc, archs, weights, rnd, i + 1,
                      [best EXCEPT !.seen = seen])

\* lines 141-172
determine_archetype(sc, archs, weights, rnd) ==
    MatchLoop(sc, archs, weights, rnd, 1,
              [name |-> None, energy |-> Inf, data |-> NoData,
               seen |-> [x \in {} |-> Inf]])

-----------------------------------------------------------------------------
(* 3. Monte Carlo stability *)

\* noise argument, in hundredths of the score range (default 0.10, line 183)
NoiseVals == {0, 10}

Max(a, b) == IF a > b THEN a ELSE b

Min(a, b) == IF a < b THEN a ELSE b

\* line 209: max(0.0, min(100.0, val + delta))
Clamp(x) == Max(0, Min(100, x))

\* line 208: random.gauss(mu, sigma) returns mu + z * sigma with
\* |z| <= sqrt(-2 * log(2 ** -53)) = 8.5717; in hundredths of sigma
GaussReach == 857

\* A plausible slip: the noise argument ignored, the default 0.10 drawn from.
DeltasFixedSpread(nz) == (-(GaussReach \div 10))..(GaussReach \div 10)

\* line 208: random.gauss(0, noise * 100.0), sigma = nz score units: the
\* whole numbers among the draws; gauss(0, 0) is always 0
Deltas(nz) == (-((GaussReach * nz) \div 100))..((GaussReach * nz) \div 100)

\* Whole scores the perturbed vectors are sampled at: the Grid, its mirror
\* image in the score range, and the neutral score of line 59
SampleScores == Grid \cup {100 - g : g \in Grid} \cup {50}

\* The draws a dimension no signature has is sampled at: 0 and the two ends
\* of the reach
EndDraws(nz) ==
    {-((GaussReach * nz) \div 100), 0, (GaussReach * nz) \div 100}

\* lines 205-209: the perturbed vectors of one trial the model follows.
\* Every dimension of the base vector gets perturbed_val = the clamped sum
\* val + delta.  On a dimension some signature of the catalog has, the sum
\* is sampled at every value of SampleScores within reach at which the
\* energies stay Representable; on the dimensions no signature has, which
\* no energy reads, at the draws of EndDraws.
Perturbations(sc, archs, nz) ==
    LET read == DOMAIN sc \cap
                    UNION {DOMAIN archs[i].signature : i \in 1..Len(archs)}
        values == SampleScores \cup {sc[d] : d \in read}
        reached(d) ==
            {x \in {Clamp(sc[d] + delta) : delta \in Deltas(nz)}
                       \cap (SampleScores \cup {sc[d]}) :
                \A i \in 1..Len(archs) :
                    d \in DOMAIN archs[i].signature =>
                        IsSquare(Abs(x - archs[i].signature[d]))}
    IN  UNION {{[d \in DOMAIN sc |->
                    IF d \in read THEN q[d] ELSE Clamp(sc[d] + u)] :
                       q \in {f \in [read -> values] :
                                 \A d \in read : f[d] \in reach[d]},
                       u \in EndDraws(nz)} :
                  reach \in {[d \in read |-> reached(d)]}}

\* line 202: counts = {name: 0 for name in archetypes.keys()}
ZeroCounts(archs) == [a \in {archs[i].name : i \in 1..Len(archs)} |-> 0]

\* A plausible slip: "= 1" for "+= 1".
TallyAssign(cnt, name) ==
    IF name \in DOMAIN cnt THEN [cnt EXCEPT ![name] = 1] ELSE cnt

\* lines 213-214: if name in counts: counts[name] += 1
Tally(cnt, name) ==
    IF name \in DOMAIN cnt THEN [cnt EXCEPT ![name] = @ + 1] ELSE cnt

\* line 216: total = sum(counts.values()) or 1
Total(cnt) == IF SumFn(cnt) = 0 THEN 1 ELSE SumFn(cnt)

\* c / total is a float without rounding: a fraction of denominator a power
\* of two (total is at most 2^12 here)
Dyadic(c, total) == \E k \in 0..12 : (c * 2^k) % total = 0

\* Where the float (c / total) * 100.0 is known to lie below, and above, the
\* percentage 100 c / total: <<c, total>> for the totals up to 8
\* ((1 / 3) * 100.0 is 33.33333333333333, (5 / 6) * 100.0 is
\* 83.33333333333334)
PctBelow ==
    {<<1, 3>>, <<2, 3>>, <<1, 6>>, <<2, 6>>, <<4, 6>>,
     <<1, 7>>, <<2, 7>>, <<3, 7>>, <<4, 7>>, <<6, 7>>}

PctAbove == {<<5, 6>>, <<5, 7>>}

\* The sides of 100 c / total on which the float (c / total) * 100.0 may
\* lie: -1 below, 0 equal, 1 above.  A dyadic c / total and its product by
\* 100 are exact; the totals up to 8 are tabulated; any other quotient is
\* rounded, and so is its product, to either side.
PctDevs(c, total) ==
    IF Dyadic(c, total) THEN {0}
    ELSE IF total <= 8
         THEN IF <<c, total>> \in PctBelow THEN {-1}
              ELSE IF <<c, total>> \in PctAbove THEN {1} ELSE {0}
         ELSE {-1, 0, 1}

\* The roundings of the percentages of a tally: one side for each archetype,
\* the same for equal counts
Devs(cnt) ==
    {dv \in [DOMAIN cnt -> {-1, 0, 1}] :
        /\ \A a \in DOMAIN cnt : dv[a] \in PctDevs(cnt[a], Total(cnt))
        /\ \A a, b \in DOMAIN cnt : cnt[a] = cnt[b] => dv[a] = dv[b]}

\* A float percentage: the fraction num / den it rounds, and the side dev of
\* that fraction it lies on
Pct(n, d, dv) == [num |-> n, den |-> d, dev |-> dv]

\* line 218: probs = {a: (c / total) * 100.0 for a, c in counts.items()}.
\* For one total the float grows strictly with c, so two percentages of a
\* report compare as their fractions do.
Probs(cnt, dv) ==
    [a \in DOMAIN cnt |-> Pct(cnt[a] * 100, Total(cnt), dv[a])]

\* The keys of the catalog among `keys`, in dict order.
RECURSIVE KeysInOrder(_, _, _)
KeysInOrder(archs, i, keys) ==
    IF i > Len(archs) THEN <<>>
    ELSE IF archs[i].name \in keys
         THEN <<archs[i].name>> \o KeysInOrder(archs, i + 1, keys)
         ELSE KeysInOrder(archs, i + 1, keys)

\* max(order, key=p.get): the first key, in order, of the largest value
FirstMax(order, p) ==
    LET i == CHOOSE k \in 1..Len(order) :
                 /\ \A j \in 1..Len(order) : ~RatLt(p[order[k]], p[order[j]])
                 /\ \A j \in 1..(k - 1) : RatLt(p[order[j]], p[order[k]])
    IN  order[i]

\* line 225: sorted(probs.items(), key=value, reverse=True), a stable sort
RECURSIVE SortedDesc(_, _)
SortedDesc(order, p) ==
    IF order = <<>> THEN <<>>
    ELSE LET m == FirstMax(order, p)
         IN  <<m>> \o SortedDesc(SelectSeq(order, LAMBDA x : x /= m), p)

\* A plausible slip: the shadow taken from the head of the sorted list.
ShadowOfHead(sorted_probs, p) ==
    IF Len(sorted_probs) > 1
    THEN <<sorted_probs[1], p[sorted_probs[1]]>>
    ELSE <<"None", Pct(0, 1, 0)>>

\* line 226: sorted_probs[1] if len(sorted_probs) > 1 else ("None", 0.0)
ShadowOf(sorted_probs, p) ==
    IF Len(sorted_probs) > 1
    THEN <<sorted_probs[2], p[sorted_probs[2]]>>
    ELSE <<"None", Pct(0, 1, 0)>>

-----------------------------------------------------------------------------
(* 4. Diagnostics *)

\* lines 259-261: math.sqrt(sum((scores[d] - sig[d]) ** 2 ...)), held as
\* the radicand
EuclidSq(sc, sig) ==
    LET common_dims == DOMAIN sc \cap DOMAIN sig
    IN  SumFn([d \in common_dims |-> (sc[d] - sig[d]) * (sc[d] - sig[d])])

\* lines 247-272: the loop body for entries i..Len(archs)
RECURSIVE DistLoop(_, _, _, _, _, _)
DistLoop(sc, archs, weights, rnd, i, acc) ==
    IF i > Len(archs) THEN acc
    ELSE LET name == archs[i].name
             sig == archs[i].signature
             common_dims == DOMAIN sc \cap DOMAIN sig
             put(m, val) == [x \in DOMAIN m \cup {name} |->
                                IF x = name THEN val ELSE m[x]]
         IN  IF sig = NoData
             THEN DistLoop(sc, archs, weights, rnd, i + 1, acc)
             ELSE IF common_dims = {}
             THEN DistLoop(sc, archs, weights, rnd, i + 1,
                      [euclidean |-> put(acc.euclidean, [inf |-> TRUE, sq |-> 0]),
                       energy |-> put(acc.energy, Inf)])
             ELSE DistLoop(sc, archs, weights, rnd, i + 1,
                      [euclidean |-> put(acc.euclidean,
                                         [inf |-> FALSE, sq |-> EuclidSq(sc, sig)]),
                       energy |-> put(acc.energy,
                                      Rounded(compute_archetype_energy(sc, sig,
                                                  weights, LambdaTenths,
                                                  RarityHundredths), rnd[i]))])

NoDist == [euclidean |-> [x \in {} |-> 0], energy |-> [x \in {} |-> 0]]

\* A plausible slip: dim_weights not handed on to the energy engine.
compute_archetype_distances_unweighted(sc, archs, weights, rnd) ==
    DistLoop(sc, archs, NoData, rnd, 1, NoDist)

\* A plausible slip: the "if not sig: continue" of lines 249-250 left out, so
\* an entry without a signature is reported like a disjoint one.
compute_archetype_distances_all(sc, archs, weights, rnd) ==
    LET filled == [i \in 1..Len(archs) |->
                      [name |-> archs[i].name,
                       signature |-> IF archs[i].signature = NoData
                                     THEN [d \in {"<none>"} |-> 0]
                                     ELSE archs[i].signature]]
    IN  DistLoop(sc, filled, weights, rnd, 1, NoDist)

\* lines 235-277
compute_archetype_distances(sc, archs, weights, rnd) ==
    DistLoop(sc, archs, weights, rnd, 1, NoDist)

-----------------------------------------------------------------------------
(* 5. The engine's calls as a state machine *)

\* Score vectors: one value per dimension, one dimension only, or none
ScoreVectors == [MDims -> Grid] \cup [{"thinking"} -> {36}] \cup {NoData}

\* Signatures: one value per dimension, one dimension only, or empty.  An
\* entry whose "signature" key is missing or empty has signature NoData
\* (line 155: data.get("signature", {})).
Signatures ==
    {sg \in [MDims -> Grid] : sg["thinking"] /= 36}
        \cup [{"execution"} -> {36}] \cup {NoData}

WeightMaps == UNION {[S -> WVals] : S \in SUBSET {"thinking"}}

\* Catalogs of up to MaxArch entries with signatures from sigs, in dict order
CatalogsOf(sigs) ==
    UNION {{[i \in 1..n |-> [name |-> ArchNames[i], signature |-> sg[i]]] :
               sg \in [1..n -> sigs]} : n \in 0..MaxArch}

\* Inputs of the simulation: base vectors and signatures at corners of the
\* score range (the perturbed vectors range over SampleScores)
MCScores == {sc \in [MDims -> {0, 100}] : sc["execution"] = 0} \cup {NoData}

MCSignatures ==
    {sg \in [MDims -> {0, 100}] : sg["thinking"] = 0 \/ sg["execution"] = 0}
        \cup {NoData}

MatchStart ==
    /\ best_name = None
    /\ best_data = NoData
    /\ match_energy = [x \in {} |-> Inf]
    /\ prev_name = None
    /\ match_calls = 0

MCIdle ==
    /\ mc_pc = "idle"
    /\ runs = 0
    /\ noise = 0
    /\ trial = 0
    /\ perturbed = NoData
    /\ counts = [x \in {} |-> 0]
    /\ probs = [x \in {} |-> Pct(0, 1, 0)]
    /\ stability = Pct(0, 1, 0)
    /\ shadow = <<"", Pct(0, 1, 0)>>

DistStart ==
    /\ dist_pc = "idle"
    /\ dist = NoDist

EngineIdle ==
    /\ scores = NoData
    /\ archetypes = <<>>
    /\ dim_weights = NoData
    /\ rounding = <<>>
    /\ MatchStart
    /\ MCIdle
    /\ DistStart

Init ==
    /\ scores \in ScoreVectors
    /\ archetypes \in CatalogsOf(Signatures) \cup CatalogsOf(TieSignatures)
    /\ dim_weights \in WeightMaps
    /\ Representable(scores, archetypes)
    /\ rounding \in Roundings(scores, archetypes, dim_weights)
    /\ MatchStart
    /\ MCIdle
    /\ DistStart
    /\ NormStart

\* Inputs of monte_carlo_probabilities, dim_weights at its default None
\* (line 184)
InitMC ==
    /\ scores \in MCScores
    /\ archetypes \in CatalogsOf(MCSignatures)
    /\ dim_weights = NoData
    /\ rounding \in Roundings(scores, archetypes, dim_weights)
    /\ MatchStart
    /\ MCIdle
    /\ DistStart
    /\ NormStart

\* lines 141-172: a call determine_archetype(scores, archetypes, dim_weights)
Determine ==
    /\ mc_pc /= "loop"
    /\ match_calls < MaxCalls
    /\ LET r == determine_archetype(scores, archetypes, dim_weights, rounding)
       IN  /\ best_name' = r.name
           /\ best_data' = r.data
           /\ match_energy' = r.seen
    /\ prev_name' = best_name
    /\ match_calls' = match_calls + 1
    /\ UNCHANGED <<scores, archetypes, dim_weights, rounding, noise>>
    /\ UNCHANGED <<mc_pc, runs, trial, perturbed, counts, probs, stability, shadow>>
    /\ UNCHANGED <<distVars, normVars>>

\* lines 179-202: the call, with its runs and noise arguments
MCStart ==
    /\ mc_pc = "idle"
    /\ \E n \in 0..MaxRuns : runs' = n
    /\ \E nz \in NoiseVals : noise' = nz
    /\ counts' = ZeroCounts(archetypes)
    /\ trial' = 0
    /\ mc_pc' = "loop"
    /\ UNCHANGED <<scores, archetypes, dim_weights, rounding>>
    /\ UNCHANGED <<perturbed, probs, stability, shadow>>
    /\ UNCHANGED <<matchVars, distVars, normVars>>

\* A plausible slip: the trial clamps the noise into the base vector itself
\* (scores[dim] = ... for perturbed[dim] = ... at line 209).
MCTrialInPlace ==
    /\ mc_pc = "loop"
    /\ trial < runs
    /\ \E p \in Perturbations(scores, archetypes, noise) :
          \E rnd \in Roundings(p, archetypes, dim_weights) :
              /\ perturbed' = p
              /\ scores' = p
              /\ counts' = Tally(counts,
                      determine_archetype(p, archetypes, dim_weights, rnd).name)
    /\ trial' = trial + 1
    /\ UNCHANGED <<archetypes, dim_weights, rounding, noise>>
    /\ UNCHANGED <<mc_pc, runs, probs, stability, shadow>>
    /\ UNCHANGED <<matchVars, distVars, normVars>>

\* lines 204-214: one trial.  A perturbed vector equal to the base vector
\* (same keys in the same order, same values) gives the floats of the base
\* vector.
MCTrial ==
    /\ mc_pc = "loop"
    /\ trial < runs
    /\ \E p \in Perturbations(scores, archetypes, noise) :
          \E rnd \in Roundings(p, archetypes, dim_weights) :
              /\ p = scores => rnd = rounding
              /\ perturbed' = p
              /\ counts' = Tally(counts,
                      determine_archetype(p, archetypes, dim_weights, rnd).name)
    /\ trial' = trial + 1
    /\ UNCHANGED <<scores, archetypes, dim_weights, rounding, noise>>
    /\ UNCHANGED <<mc_pc, runs, probs, stability, shadow>>
    /\ UNCHANGED <<matchVars, distVars, normVars>>

\* lines 216-228 with a non-empty probs
MCReturn ==
    /\ mc_pc = "loop"
    /\ trial = runs
    /\ DOMAIN counts /= {}
    /\ \E dv \in Devs(counts) :
          LET p == Probs(counts, dv)
              order == KeysInOrder(archetypes, 1, DOMAIN counts)
              primary == FirstMax(order, p)
          IN  /\ probs' = p
              /\ stability' = p[primary]
              /\ shadow' = ShadowOf(SortedDesc(order, p), p)
    /\ perturbed' = NoData
    /\ mc_pc' = "returned"
    /\ UNCHANGED <<scores, archetypes, dim_weights, rounding, noise>>
    /\ UNCHANGED <<runs, trial, counts>>
    /\ UNCHANGED <<matchVars, distVars, normVars>>

\* line 221 with an empty probs: max() of an empty dict raises ValueError
MCRaise ==
    /\ mc_pc = "loop"
    /\ trial = runs
    /\ DOMAIN counts = {}
    /\ perturbed' = NoData
    /\ mc_pc' = "raised"
    /\ UNCHANGED <<scores, archetypes, dim_weights, rounding, noise>>
    /\ UNCHANGED <<runs, trial, counts, probs, stability, shadow>>
    /\ UNCHANGED <<matchVars, distVars, normVars>>

\* lines 235-277: a call compute_archetype_distances(scores, archetypes,
\* dim_weights)
Distances ==
    /\ mc_pc /= "loop"
    /\ dist_pc = "idle"
    /\ dist' = compute_archetype_distances(scores, archetypes, dim_weights,
                                            rounding)
    /\ dist_pc' = "returned"
    /\ UNCHANGED <<scores, archetypes, dim_weights, rounding, noise>>
    /\ UNCHANGED <<matchVars, mcVars, normVars>>

\* The matcher and the diagnostics on the same inputs
Next == Determine \/ Distances

Spec == Init /\ [][Next]_vars

\* The matcher and the stability simulation on the same inputs, the
\* simulation called once the matcher has classified the base vector
NextMC ==
    \/ Determine
    \/ match_calls = 1 /\ MCStart
    \/ MCTrial
    \/ MCReturn
    \/ MCRaise

SpecMC == InitMC /\ [][NextMC]_vars

\* The four functions of the engine called on the same arguments:
\* normalize_scores on a list of answers; determine_archetype,
\* monte_carlo_probabilities and compute_archetype_distances on a score
\* vector, a catalog and a weight mapping (a score of 50 is 1 or 49 away
\* from the signature values 51 and 99, a score of 100 is 49 or 1 away)
CallScores == {[d \in {"thinking"} |-> 50]}

CallSignatures == [{"thinking"} -> {51, 99}] \cup {NoData}

AnswerSheets ==
    {<<[dimension |-> "risk", value |-> 4, reverse |-> TRUE],
       [dimension |-> "team", value |-> 2, reverse |-> FALSE]>>}

InitAll ==
    /\ raw_answers \in AnswerSheets
    /\ asked = Len(raw_answers)
    /\ final_scores = Unset
    /\ flip_scores = Unset
    /\ norm_pc = "input"
    /\ scores \in CallScores
    /\ archetypes \in CatalogsOf(CallSignatures)
    /\ dim_weights \in WeightMaps
    /\ rounding \in Roundings(scores, archetypes, dim_weights)
    /\ MatchStart
    /\ MCIdle
    /\ DistStart

\* The calls in any order; a call made by the same caller starts when no
\* simulation is running
NextAll ==
    \/ mc_pc /= "loop" /\ Normalize
    \/ Determine
    \/ MCStart
    \/ MCTrial
    \/ MCReturn
    \/ MCRaise
    \/ Distances

SpecAll == InitAll /\ [][NextAll]_vars

InitNorm == EngineIdle /\ NormStart

NextNorm == AddAnswer \/ Normalize \/ NormalizeUnreversed

SpecNorm == InitNorm /\ [][NextNorm]_vars

-----------------------------------------------------------------------------
(* 6. Properties of normalize_scores (checked under SpecNorm) *)

\* C2: every dimension with at least one response scores (m - 1) / 4 * 100,
\* m being the mean of its reverse-coded values: only 1s give 0, only 5s
\* give 100, only 3s give 50.
C2_AffineRescale ==
    norm_pc /= "input" =>
        \A d \in DimSet :
            LET sum == Tallies(raw_answers).scores[d]
                count == Tallies(raw_answers).counts[d]
            IN  count > 0 =>
                    RatEq(final_scores[d], Rat((sum - count) * 100, 4 * count))

\* C9: normalising with an answer {v, reverse: true} gives the same score
\* vector as normalising with that answer replaced by {6 - v, reverse: false}.
C9_ReverseInvolution ==
    norm_pc = "compared" =>
        /\ DOMAIN flip_scores = DOMAIN final_scores
        /\ \A d \in DOMAIN final_scores : RatEq(flip_scores[d], final_scores[d])

C9_Witness ==
    /\ norm_pc = "compared"
    /\ \E i \in 1..Len(raw_answers) :
          /\ raw_answers[i].reverse
          /\ raw_answers[i].value = 1
          /\ RatEq(final_scores[raw_answers[i].dimension], Rat(100, 1))
          /\ RatEq(flip_scores[raw_answers[i].dimension], Rat(100, 1))

\* C10: the result of normalize_scores has exactly one entry for each of the
\* six dimensions and every entry lies in [0, 100].
C10_ScoresInRange ==
    norm_pc /= "input" =>
        /\ DOMAIN final_scores = DimSet
        /\ Cardinality(DOMAIN final_scores) = 6
        /\ \A d \in DimSet :
              /\ final_scores[d].den > 0
              /\ RatLe(Rat(0, 1), final_scores[d])
              /\ RatLe(final_scores[d], Rat(100, 1))

C10_Witness ==
    /\ norm_pc = "normalized"
    /\ Len(raw_answers) >= 2
    /\ \E d \in DimSet : RatEq(final_scores[d], Rat(100, 1))
    /\ \E d \in DimSet : RatEq(final_scores[d], Rat(20, 1))

\* C11: a dimension that received no response normalizes to exactly 50,
\* whatever the other dimensions received, the empty collection included;
\* the call completes (no error) for every collection.
C11_NoResponseIsNeutral ==
    norm_pc /= "input" =>
        /\ DOMAIN final_scores = DimSet
        /\ \A d \in DimSet :
              (\A i \in 1..Len(raw_answers) : raw_answers[i].dimension /= d)
                  => final_scores[d] = Rat(50, 1)

C11_Witness ==
    /\ norm_pc = "normalized"
    /\ Len(raw_answers) >= 2
    /\ \A i \in 1..Len(raw_answers) : raw_answers[i].dimension = "risk"
    /\ RatEq(final_scores["risk"], Rat(90, 1))
    /\ final_scores["team"] = Rat(50, 1)

-----------------------------------------------------------------------------
(* 7. Properties of the matcher and the diagnostics (checked under Spec) *)

Valid(i) == archetypes[i].signature /= NoData

\* The mismatch of catalog entry i for the base score vector: the value of
\* the energy expression
MismatchOf(i) ==
    compute_archetype_energy(scores, archetypes[i].signature, dim_weights,
                             LambdaTenths, RarityHundredths)

\* Score vector and signature share a dimension and agree on every shared one
Agrees(sc, sig) ==
    /\ DOMAIN sc \cap DOMAIN sig /= {}
    /\ \A d \in DOMAIN sc \cap DOMAIN sig : sc[d] = sig[d]

SharedSum(sc, sig) == SumFn([d \in DOMAIN sc \cap DOMAIN sig |-> sig[d]])

\* C3 as stated: the mismatch the matcher computes for an archetype whose
\* signature agrees with the score vector on every shared dimension is
\* exactly 0.
C3_IdenticalIsZero ==
    match_calls > 0 =>
        \A i \in 1..Len(archetypes) :
            Agrees(scores, archetypes[i].signature) =>
                match_energy[archetypes[i].name] = Finite(0)

\* C3 amended: for such an archetype the mismatch is exactly the rarity bias
\* rarity_weight * mean(signature over the shared dimensions) / 100 (the
\* quadratic and curvature terms are 0), which is 0 only when the shared
\* signature values are all 0.
C3_IdenticalIsRarity ==
    match_calls > 0 =>
        \A i \in 1..Len(archetypes) :
            Agrees(scores, archetypes[i].signature) =>
                LET E == match_energy[archetypes[i].name]
                    sig == archetypes[i].signature
                    n == Cardinality(DOMAIN scores \cap DOMAIN sig)
                IN  /\ ~E.inf
                    /\ E.v * n * 100 =
                          RarityHundredths * SharedSum(scores, sig)
                              * (EScale \div 100)
                    /\ (E.v = 0 <=> SharedSum(scores, sig) = 0)

C3_Witness ==
    /\ match_calls > 0
    /\ \E i \in 1..Len(archetypes) :
          /\ Agrees(scores, archetypes[i].signature)
          /\ DOMAIN archetypes[i].signature = MDims
          /\ DOMAIN scores = MDims
          /\ SharedSum(scores, archetypes[i].signature) = 136
          /\ best_name = archetypes[i].name
          /\ match_energy[best_name].v > 0

\* A reported Euclidean distance sqrt(e.sq) and an energy E.v / EScale are
\* the same number
SameNumber(e, E) ==
    \/ e.inf /\ E.inf
    \/ /\ ~e.inf
       /\ ~E.inf
       /\ \E r \in 0..e.sq : r * r = e.sq /\ r * EScale = E.v

\* The first name, in catalog order, whose value in m is the least and finite
IsFirstLeast(name, m, less(_, _)) ==
    \E i \in 1..Len(archetypes) :
        /\ archetypes[i].name = name
        /\ name \in DOMAIN m
        /\ ~m[name].inf
        /\ \A j \in 1..Len(archetypes) :
              archetypes[j].name \in DOMAIN m =>
                  /\ ~less(m[archetypes[j].name], m[name])
                  /\ j < i => less(m[name], m[archetypes[j].name])

LessSq(a, b) == ~a.inf /\ (b.inf \/ a.sq < b.sq)

\* C4 as stated: the 'euclidean' value reported for each valid archetype
\* equals the mismatch the matcher computed for it, and the archetype with
\* the smallest reported distance is the one the matcher returns.
C4_EuclideanIsMismatch ==
    (dist_pc = "returned" /\ match_calls > 0) =>
        /\ DOMAIN dist.euclidean = DOMAIN match_energy
        /\ \A a \in DOMAIN dist.euclidean :
              SameNumber(dist.euclidean[a], match_energy[a])
        /\ best_name /= None => IsFirstLeast(best_name, dist.euclidean, LessSq)

\* C4 amended: it is the 'energy' value reported for each valid archetype
\* that equals the matcher's mismatch; the matcher returns the first
\* archetype, in catalog order, of the smallest finite reported energy, and
\* the sentinel when no reported energy is finite.
C4_EnergyIsMismatch ==
    (dist_pc = "returned" /\ match_calls > 0) =>
        /\ DOMAIN dist.energy = DOMAIN match_energy
        /\ DOMAIN dist.euclidean = DOMAIN dist.energy
        /\ \A a \in DOMAIN dist.energy : dist.energy[a] = match_energy[a]
        /\ best_name /= None => IsFirstLeast(best_name, dist.energy, Less)
        /\ best_name = None => \A a \in DOMAIN dist.energy : dist.energy[a].inf

C4_Witness ==
    /\ dist_pc = "returned"
    /\ match_calls > 0
    /\ DOMAIN dim_weights /= {}
    /\ Len(archetypes) >= 2
    /\ best_name = archetypes[2].name
    /\ Valid(1)
    /\ ~dist.energy[archetypes[1].name].inf
    /\ LessSq(dist.euclidean[archetypes[1].name], dist.euclidean[best_name])

\* C7: every valid entry gets a computed mismatch, the float of the energy
\* expression; the archetype determine_archetype returns has a computed
\* mismatch no greater than that of any valid entry and is the first entry,
\* in catalog order, of that least computed mismatch; it is returned whenever
\* some valid entry has a finite mismatch, and is returned again by a
\* repeated call on the same inputs.
C7_FirstMinimumWins ==
    match_calls > 0 =>
        /\ \A j \in 1..Len(archetypes) :
              Valid(j) =>
                  /\ archetypes[j].name \in DOMAIN match_energy
                  /\ match_energy[archetypes[j].name].inf = MismatchOf(j).inf
                  /\ match_energy[archetypes[j].name].v = MismatchOf(j).v
        /\ best_name /= None =>
              \E i \in 1..Len(archetypes) :
                  /\ archetypes[i].name = best_name
                  /\ Valid(i)
                  /\ best_data = archetypes[i].signature
                  /\ ~match_energy[best_name].inf
                  /\ \A j \in 1..Len(archetypes) :
                        Valid(j) =>
                            /\ ~Less(match_energy[archetypes[j].name],
                                     match_energy[best_name])
                            /\ j < i => Less(match_energy[best_name],
                                             match_energy[archetypes[j].name])
        /\ (\E j \in 1..Len(archetypes) :
                Valid(j) /\ ~match_energy[archetypes[j].name].inf)
              => best_name /= None
        /\ match_calls > 1 => prev_name = best_name

\* Two entries of different signatures and equal computed mismatch: the
\* first is returned, by the first call and by the repeated one
C7_Witness ==
    /\ match_calls > 1
    /\ Len(archetypes) >= 2
    /\ best_name = archetypes[1].name
    /\ prev_name = best_name
    /\ Valid(2)
    /\ archetypes[2].signature /= archetypes[1].signature
    /\ match_energy[archetypes[2].name] = match_energy[archetypes[1].name]
    /\ match_energy[archetypes[1].name].v > 0

\* Entry i has a non-empty signature sharing no dimension with the scores
Disjoint(i) ==
    Valid(i) /\ DOMAIN scores \cap DOMAIN archetypes[i].signature = {}

\* C13: an archetype whose signature shares no dimension with the score
\* vector gets infinite mismatch and is never returned; any other entry with
\* a finite mismatch is still selected; if every valid entry is disjoint the
\* result is the no-result sentinel.
C13_DisjointExcluded ==
    match_calls > 0 =>
        /\ \A i \in 1..Len(archetypes) :
              Disjoint(i) =>
                  /\ match_energy[archetypes[i].name] = Inf
                  /\ best_name /= archetypes[i].name
        /\ (\E j \in 1..Len(archetypes) : Valid(j) /\ ~Disjoint(j)) =>
              \E j \in 1..Len(archetypes) :
                  /\ best_name = archetypes[j].name
                  /\ Valid(j)
                  /\ ~Disjoint(j)
                  /\ ~match_energy[best_name].inf
        /\ (\A j \in 1..Len(archetypes) : Valid(j) => Disjoint(j)) =>
              (best_name = None /\ best_data = NoData)

C13_Witness ==
    /\ match_calls > 0
    /\ Len(archetypes) >= 2
    /\ Disjoint(1)
    /\ Valid(2)
    /\ ~Disjoint(2)
    /\ match_energy[archetypes[1].name] = Inf
    /\ best_name = archetypes[2].name

-----------------------------------------------------------------------------
(* 8. Properties of the stability simulation (checked under SpecMC) *)

RECURSIVE RatSumFn(_)
RatSumFn(f) ==
    IF DOMAIN f = {} THEN Rat(0, 1)
    ELSE LET a == CHOOSE x \in DOMAIN f : TRUE
             rest == RatSumFn([x \in DOMAIN f \ {a} |-> f[x]])
         IN  Rat(f[a].num * rest.den + rest.num * f[a].den, f[a].den * rest.den)

\* Some catalog entry has a signature sharing a dimension with the base vector
Selectable ==
    \E i \in 1..Len(archetypes) :
        Valid(i) /\ DOMAIN scores \cap DOMAIN archetypes[i].signature /= {}

VotesFor(name) == IF name \in DOMAIN counts THEN counts[name] ELSE 0

\* C1: with an empty catalog determine_archetype returns (None, None) and
\* monte_carlo_probabilities returns an empty report (no probabilities,
\* stability 0, shadow ("None", 0)) instead of raising.
C1_EmptyCatalogNoRaise ==
    archetypes = <<>> =>
        /\ match_calls > 0 => (best_name = None /\ best_data = NoData)
        /\ mc_pc /= "raised"
        /\ mc_pc = "returned" =>
              /\ DOMAIN probs = {}
              /\ RatEq(stability, Rat(0, 1))
              /\ shadow[1] = "None"
              /\ RatEq(shadow[2], Rat(0, 1))

\* C5: when fewer than two archetypes received a vote the returned shadow is
\* ("None", 0); otherwise it is the archetype of the second-highest
\* percentage.
C5_ShadowSentinel ==
    mc_pc = "returned" =>
        LET voted == {a \in DOMAIN counts : counts[a] > 0}
        IN  IF Cardinality(voted) < 2
            THEN shadow[1] = "None" /\ RatEq(shadow[2], Rat(0, 1))
            ELSE /\ shadow[1] \in voted
                 /\ shadow[2] = probs[shadow[1]]
                 /\ \E top \in DOMAIN probs \ {shadow[1]} :
                       /\ ~RatLt(probs[top], shadow[2])
                       /\ \A a \in DOMAIN probs \ {top, shadow[1]} :
                             ~RatLt(shadow[2], probs[a])

\* The returned probabilities are the percentages 100 c / total themselves,
\* each in [0, 100], and sum to 100
ProbsSumTo100 ==
    /\ RatEq(RatSumFn(probs), Rat(100, 1))
    /\ \A a \in DOMAIN probs :
          /\ probs[a].dev = 0
          /\ RatLe(Rat(0, 1), probs[a])
          /\ RatLe(probs[a], Rat(100, 1))

\* The returned probabilities are the floats of percentages that sum to 100:
\* each lies in [0, 100] (0 and 100 are returned exactly), on the side of
\* its percentage that the rounding of (c / total) * 100.0 allows, and on
\* the percentage itself when c / total is dyadic
ProbsSumTo100Rounded ==
    /\ RatEq(RatSumFn(probs), Rat(100, 1))
    /\ \A a \in DOMAIN probs :
          /\ RatLe(Rat(0, 1), probs[a])
          /\ RatLe(probs[a], Rat(100, 1))
          /\ probs[a] = Pct(counts[a] * 100, runs, probs[a].dev)
          /\ probs[a].dev \in PctDevs(counts[a], runs)
          /\ (RatEq(probs[a], Rat(0, 1)) \/ RatEq(probs[a], Rat(100, 1)))
                => probs[a].dev = 0

\* C6 as stated: for N > 0 and any non-empty catalog the votes sum to N
\* after the last trial, so the probabilities sum to 100, each in [0, 100].
C6_VotesSumToRuns ==
    (mc_pc = "returned" /\ runs > 0 /\ archetypes /= <<>>) =>
        /\ SumFn(counts) = runs
        /\ ProbsSumTo100

\* C6 amended: for N > 0 and a catalog in which at least one entry has a
\* non-empty signature sharing a dimension with the base score vector, every
\* trial casts exactly one vote, so the votes sum to N after the last trial;
\* each returned probability is the float (c / N) * 100.0 of a percentage
\* 100 c / N, it lies in [0, 100], and the percentages sum to 100: the
\* returned floats sum to 100 up to their rounding, and are the percentages
\* themselves when every c / N is dyadic.
C6_VotesSumToRunsSelectable ==
    Selectable =>
        /\ mc_pc = "loop" => SumFn(counts) = trial
        /\ (mc_pc = "returned" /\ runs > 0) =>
              /\ SumFn(counts) = runs
              /\ ProbsSumTo100Rounded
              /\ (\A a \in DOMAIN counts : Dyadic(counts[a], runs))
                    => ProbsSumTo100

\* Three trials, one vote and two: the returned 33.33333333333333 and
\* 66.66666666666666 lie below the percentages 100/3 and 200/3
C6_Witness ==
    /\ mc_pc = "returned"
    /\ runs = 3
    /\ Selectable
    /\ Len(archetypes) >= 2
    /\ counts[archetypes[1].name] = 1
    /\ counts[archetypes[2].name] = 2
    /\ probs[archetypes[1].name] = Pct(100, 3, -1)
    /\ probs[archetypes[2].name] = Pct(200, 3, -1)
    /\ stability = probs[archetypes[2].name]

\* C8: the returned stability is the percentage of trials classified as the
\* archetype determine_archetype returns for the unperturbed base scores.
C8_StabilityOfBasePrimary ==
    (mc_pc = "returned" /\ runs > 0 /\ match_calls > 0) =>
        RatEq(stability, Rat(VotesFor(best_name) * 100, runs))

\* C12: monte_carlo_probabilities never divides by zero: when the trial count
\* is 0, or when no trial yields a vote, the call completes without raising
\* and every probability and the stability are 0.
C12_NeutralReportNoRaise ==
    /\ mc_pc = "loop" => Total(counts) > 0
    /\ (mc_pc \in {"returned", "raised"} /\ (runs = 0 \/ SumFn(counts) = 0)) =>
          /\ mc_pc = "returned"
          /\ \A a \in DOMAIN probs :
                probs[a].den > 0 /\ RatEq(probs[a], Rat(0, 1))
          /\ RatEq(stability, Rat(0, 1))

\* C15: with noise = 0 and an archetype returned for the base scores, every
\* trial votes for that archetype: its tally equals the number of trials
\* done, and with runs > 0 its probability and the stability are exactly 100
\* and every other probability is 0.
C15_ZeroNoiseIsCertain ==
    (noise = 0 /\ best_name /= None) =>
        /\ mc_pc = "loop" =>
              \A a \in DOMAIN counts :
                  counts[a] = IF a = best_name THEN trial ELSE 0
        /\ (mc_pc = "returned" /\ runs > 0) =>
              /\ best_name \in DOMAIN probs
              /\ RatEq(probs[best_name], Rat(100, 1))
              /\ RatEq(stability, Rat(100, 1))
              /\ \A a \in DOMAIN probs \ {best_name} :
                    RatEq(probs[a], Rat(0, 1))

C15_Witness ==
    /\ mc_pc = "returned"
    /\ noise = 0
    /\ runs >= 2
    /\ trial = runs
    /\ Len(archetypes) >= 2
    /\ Valid(1)
    /\ Valid(2)
    /\ best_name = archetypes[2].name
    /\ RatEq(probs[best_name], Rat(100, 1))
    /\ RatEq(probs[archetypes[1].name], Rat(0, 1))
    /\ RatEq(stability, Rat(100, 1))

-----------------------------------------------------------------------------
(* 9. Properties of the four calls together (checked under SpecAll) *)

\* Entry i has an empty or missing signature
EmptySignature(i) == archetypes[i].signature = NoData

\* C14: an archetype whose signature is empty or missing is never the name
\* returned by determine_archetype, its tally stays 0 through every trial
\* (and its probability is 0), and it has no entry in either diagnostic
\* mapping; the two mappings have the same keys, the names of the entries
\* with a signature.
C14_EmptySignatureExcluded ==
    /\ \A i \in 1..Len(archetypes) :
          EmptySignature(i) =>
              LET name == archetypes[i].name
              IN  /\ best_name /= name
                  /\ name \in DOMAIN counts => counts[name] = 0
                  /\ name \in DOMAIN probs => RatEq(probs[name], Rat(0, 1))
                  /\ name \notin DOMAIN dist.euclidean
                  /\ name \notin DOMAIN dist.energy
    /\ DOMAIN dist.euclidean = DOMAIN dist.energy
    /\ dist_pc = "returned" =>
          DOMAIN dist.euclidean =
              {archetypes[i].name : i \in {j \in 1..Len(archetypes) : Valid(j)}}

C14_Witness ==
    /\ DOMAIN dim_weights /= {}
    /\ Len(archetypes) >= 2
    /\ EmptySignature(1)
    /\ Valid(2)
    /\ best_name = archetypes[2].name
    /\ mc_pc = "returned"
    /\ runs >= 2
    /\ noise > 0
    /\ counts[archetypes[1].name] = 0
    /\ counts[archetypes[2].name] = runs
    /\ perturbed = NoData
    /\ dist_pc = "returned"
    /\ DOMAIN dist.energy = {archetypes[2].name}

\* C16: no step of normalize_scores, determine_archetype,
\* monte_carlo_probabilities or compute_archetype_distances changes the
\* catalog, the base score vector, the weight mapping or the raw answers,
\* whatever the order of the calls; and a Monte Carlo trial changes nothing
\* but its perturbed vector, the tally and the trial counter.
C16_InputsReadOnly ==
    [][/\ archetypes' = archetypes
       /\ scores' = scores
       /\ dim_weights' = dim_weights
       /\ raw_answers' = raw_answers
       /\ (mc_pc = "loop" /\ trial' /= trial) =>
             /\ UNCHANGED <<matchVars, distVars>>
             /\ UNCHANGED normVars
             /\ UNCHANGED <<mc_pc, runs, noise, probs, stability, shadow>>]_vars

\* Every call has returned, on a non-empty weight mapping and answer list;
\* the simulation, started after the diagnostics and before the matcher and
\* normalize_scores, drew vectors other than the base vector
C16_Witness ==
    /\ raw_answers /= <<>>
    /\ DOMAIN dim_weights /= {}
    /\ archetypes /= <<>>
    /\ DOMAIN scores /= {}
    /\ norm_pc = "normalized"
    /\ match_calls >= 1
    /\ mc_pc = "returned"
    /\ runs >= 2
    /\ noise > 0
    /\ \E a \in DOMAIN counts : a /= best_name /\ counts[a] > 0
    /\ dist_pc = "returned"
    /\ DOMAIN dist.energy /= {}

=============================================================================
